---- MODULE Spec2Model ----
(***************************************************************************)
(* Model of the charter-driven planner (planner/planner.py), the           *)
(* orchestrator's run loop (tools/ochestrator.py) and the oracle's freeze  *)
(* step (tools/oracle.py).                                                 *)
(*                                                                         *)
(* Text is modelled as a sequence of tokens, so that string operations     *)
(* (concatenation, replace, pattern search) are computed, not assumed.     *)
(* Python values are tagged records [t, v].                                *)
(***************************************************************************)
EXTENDS Integers, Sequences, FiniteSets, TLC

(***************************************************************************)
(* Bounds of the model.                                                    *)
(***************************************************************************)
\* largest configured LLM_MAX_RETRIES explored (the smallest is -1)
MaxRetryConfig == 2
\* largest number of APIs a Charter of the planner model declares
MaxApis == 3

\* LLM_MAX_RETRIES when the environment does not set it
DefaultMaxRetries == 2

(***************************************************************************)
(* Python values.                                                          *)
(***************************************************************************)
PyNone == [t |-> "none", v |-> 0]
PyStr(s) == [t |-> "str", v |-> s]
PyBool(b) == [t |-> "bool", v |-> b]
PyList(items) == [t |-> "list", v |-> items]
\* a dict is the sequence of its <<key, value>> items in insertion order
PyDict(items) == [t |-> "dict", v |-> items]
EmptyDict == PyDict(<< >>)

IsDict(d) == d.t = "dict"

\* project.charter.yaml does not exist
MissingCharter == [t |-> "missing", v |-> 0]
CharterExists(ch) == ch.t # "missing"

\* Python truthiness: None, False, "", [] and {} are falsy
Truthy(x) ==
  CASE x.t = "none" -> FALSE
    [] x.t = "bool" -> x.v
    [] OTHER -> Len(x.v) > 0

HasKey(d, k) == \E i \in 1..Len(d.v) : d.v[i][1] = k

\* dict.get(k, default)
Get(d, k, default) ==
  IF HasKey(d, k)
    THEN d.v[CHOOSE i \in 1..Len(d.v) : d.v[i][1] = k][2]
    ELSE default

(***************************************************************************)
(* planner/planner.py                                                      *)
(***************************************************************************)
Task(id, kind, target, deps, detail) ==
  [id |-> id, kind |-> kind, target |-> target, deps |-> deps, detail |-> detail]

LayoutId == <<"layout:ensure">>
FreezeId == <<"freeze:checkpoint">>
\* ImplId without the name of the API
ImplIdNoName(api_name) == <<"impl:">>
ImplId(api_name) == <<"impl:">> \o api_name
TestId(api_name) == <<"test:">> \o api_name

\* ApiTasks with the test task emitted before the impl task
ApiTasksTestFirst(api_name, cfg) ==
  LET module == Get(cfg, "module", PyNone)
  IN IF ~Truthy(module)
       THEN << >>
       ELSE << Task(TestId(api_name), "test", module, <<ImplId(api_name)>>,
                    PyDict(<< <<"types", PyList(<<"unit", "property">>)>> >>)),
               Task(ImplId(api_name), "impl", module, <<LayoutId>>,
                    PyDict(<< <<"mode", PyStr(<<"template">>)>> >>)) >>

\* the two tasks one API contributes (planner.py lines 40-47)
ApiTasks(api_name, cfg) ==
  LET module == Get(cfg, "module", PyNone)
  IN IF ~Truthy(module)
       THEN << >>
       ELSE << Task(ImplId(api_name), "impl", module, <<LayoutId>>,
                    PyDict(<< <<"mode", PyStr(<<"template">>)>> >>)),
               Task(TestId(api_name), "test", module, <<ImplId(api_name)>>,
                    PyDict(<< <<"types", PyList(<<"unit", "property">>)>> >>)) >>

\* the freeze checkpoint (planner.py lines 50-51); deps keeps its default
FreezeTask(gates) ==
  Task(FreezeId, "freeze", PyStr(<<"apis">>), << >>, PyDict(<< <<"gates", gates>> >>))

RECURSIVE ApiLoop(_, _)
\* the loop over apis.items(), from item i on
ApiLoop(items, i) ==
  IF i > Len(items)
    THEN << >>
    ELSE ApiTasks(items[i][1], items[i][2]) \o ApiLoop(items, i + 1)

\* compile_tasks(ch): [raised, tasks]; raised when a .get/.items is applied
\* to a value that is no dict (AttributeError)
compile_tasks(ch) ==
  LET meta == Get(ch, "meta", EmptyDict)
      layout == Get(meta, "repo_layout", EmptyDict)
      src_dir == Get(layout, "src_dir", PyStr(<<"src">>))
      interfaces == Get(ch, "interfaces", EmptyDict)
      apis == Get(interfaces, "apis", EmptyDict)
      governance == Get(ch, "governance", EmptyDict)
      gates == Get(governance, "freeze_after", PyList(<< >>))
      Raise == [raised |-> TRUE, tasks |-> << >>]
  IN IF ~IsDict(meta) THEN Raise
     ELSE IF ~IsDict(layout) THEN Raise
     ELSE IF ~IsDict(interfaces) THEN Raise
     ELSE IF ~IsDict(apis) THEN Raise
     ELSE IF \E i \in 1..Len(apis.v) : ~IsDict(apis.v[i][2]) THEN Raise
     ELSE IF ~IsDict(governance) THEN Raise
     ELSE [raised |-> FALSE,
           tasks |-> << Task(LayoutId, "scaffold", src_dir, << >>, EmptyDict) >>
                     \o ApiLoop(apis.v, 1)
                     \o << FreezeTask(gates) >>]

(***************************************************************************)
(* Text helpers.                                                           *)
(***************************************************************************)
\* str.replace(old, new) for single-token old and new
Replace(s, old, new) == [i \in 1..Len(s) |-> IF s[i] = old THEN new ELSE s[i]]

IsSpace(tok) == tok \in {"\n", " "}

\* first index >= i of s that holds no whitespace (Len(s) + 1 when none)
SkipSpace(s, i) ==
  IF \E j \in i..Len(s) : ~IsSpace(s[j])
    THEN CHOOSE j \in i..Len(s) : ~IsSpace(s[j]) /\ \A k \in i..(j - 1) : IsSpace(s[k])
    ELSE Len(s) + 1

\* s holds the tokens of w from index i on
StartsWithAt(s, i, w) ==
  /\ i + Len(w) - 1 <= Len(s)
  /\ \A k \in 1..Len(w) : s[i + k - 1] = w[k]

\* s.split(".")[-1]
LastSegment(s) ==
  IF \E j \in 1..Len(s) : s[j] = "."
    THEN LET j == CHOOSE j \in 1..Len(s) : s[j] = "." /\ \A k \in (j + 1)..Len(s) : s[k] # "."
         IN SubSeq(s, j + 1, Len(s))
    ELSE s

\* str.lstrip("\n")
LStripNewlines(s) ==
  IF \E j \in 1..Len(s) : s[j] # "\n"
    THEN LET j == CHOOSE j \in 1..Len(s) : s[j] # "\n" /\ \A k \in 1..(j - 1) : s[k] = "\n"
         IN SubSeq(s, j, Len(s))
    ELSE << >>

(***************************************************************************)
(* tools/ochestrator.py: prompt and parsing                                *)
(***************************************************************************)
\* the token of three backquotes followed by "python", and of three backquotes
FenceOpen == "<fence>python"
FenceClose == "<fence>"
\* the closing fence of the pattern also matches the first three characters
\* of an opening fence
IsFence(tok) == tok \in {FenceOpen, FenceClose}

\* The pattern: an opening fence, whitespace, "#", whitespace, module_path,
\* whitespace, a lazy group, a closing fence (DOTALL). Matched from index i,
\* where its group lies: [ok, from, to]
MatchAt(module_path, out, i) ==
  LET h == SkipSpace(out, i + 1)
      m == SkipSpace(out, h + 1)
      c == SkipSpace(out, m + Len(module_path))
      head == /\ out[i] = FenceOpen
              /\ h <= Len(out) /\ out[h] = "#"
              /\ StartsWithAt(out, m, module_path)
  IN IF head /\ \E j \in c..Len(out) : IsFence(out[j])
       THEN [ok |-> TRUE, from |-> c,
             to |-> (CHOOSE j \in c..Len(out) :
                       IsFence(out[j]) /\ \A k \in c..(j - 1) : ~IsFence(out[k])) - 1]
       ELSE [ok |-> FALSE, from |-> 0, to |-> 0]

\* extract_code_block(module_path, llm_output): the group of the leftmost match,
\* left-stripped of newlines, or None
extract_code_block(module_path, llm_output) ==
  LET hits == {i \in 1..Len(llm_output) : MatchAt(module_path, llm_output, i).ok}
  IN IF hits = {}
       THEN PyNone
       ELSE LET i == CHOOSE i \in hits : \A j \in hits : i <= j
                g == MatchAt(module_path, llm_output, i)
            IN PyStr(LStripNewlines(SubSeq(llm_output, g.from, g.to)))

\* render_prompt: the parts of the user message that vary
render_prompt(module_path, mode, failure_trace) ==
  [module_path |-> module_path,
   mode |-> mode,
   extra |-> IF Truthy(failure_trace)
               THEN PyStr(<<"\n", "\n", "Previous attempt failed. Here is the failure trace:",
                            "\n", "<fence>", "\n">>
                          \o failure_trace.v
                          \o <<"\n", "<fence>", "\n", "Fix the root cause.">>)
               ELSE PyStr(<< >>)]

(***************************************************************************)
(* The file system: a function from ROOT-relative paths to file contents.  *)
(***************************************************************************)
WriteText(files, path, content) ==
  [q \in (DOMAIN files) \cup {path} |-> IF q = path THEN content ELSE files[q]]

\* what a file holds: << content >>, or << >> when there is no such file
FileState(files, path) == IF path \in DOMAIN files THEN << files[path] >> ELSE << >>
Exists(files, path) == path \in DOMAIN files

\* order of text: tokens compare by rank, strings lexicographically
TokOrder ==
  << "()", "(x)", ".", "/", "_", "a", "b", "cli", "f", "g", "lib", "main", "src",
     "x", "y", "your_project", "z" >>
TokRank(tok) ==
  IF \E i \in 1..Len(TokOrder) : TokOrder[i] = tok
    THEN CHOOSE i \in 1..Len(TokOrder) : TokOrder[i] = tok
    ELSE Len(TokOrder) + 1

StrLess(a, b) ==
  \E i \in 1..(Len(a) + 1) :
    /\ i <= Len(b)
    /\ \A k \in 1..(i - 1) : k <= Len(a) /\ a[k] = b[k]
    /\ IF i <= Len(a) THEN TokRank(a[i]) < TokRank(b[i]) ELSE TRUE

RECURSIVE Insert(_, _)
Insert(sorted, x) ==
  IF sorted = << >> THEN << x >>
  ELSE IF StrLess(x, Head(sorted)) THEN << x >> \o sorted
  ELSE << Head(sorted) >> \o Insert(Tail(sorted), x)

RECURSIVE Sorted(_)
\* sorted(strings)
Sorted(strs) ==
  IF strs = << >> THEN << >> ELSE Insert(Sorted(Tail(strs)), Head(strs))

(***************************************************************************)
(* tools/oracle.py                                                         *)
(***************************************************************************)
\* sh() returns 124 on a timeout
TimeoutStatus == 124
\* load_charter: sys.exit(2) when the Charter file does not exist
ConfigStatus == 2
StepCodes == {0, 1, TimeoutStatus}

\* a "def" line is the tokens "def ", name, signature in parentheses, ":"
FuncNames == {"f", "g", "main"}
ParenSigs == {"()", "(x)"}

RECURSIVE FindDefs(_, _)
\* the matches of the pattern ^def name(sig): in text (MULTILINE), from index
\* i on, each as the string name(sig)
FindDefs(text, i) ==
  IF i > Len(text) THEN << >>
  ELSE IF /\ text[i] = "def "
          /\ (i = 1 \/ text[i - 1] = "\n")
          /\ i + 3 <= Len(text)
          /\ text[i + 1] \in FuncNames
          /\ text[i + 2] \in ParenSigs
          /\ text[i + 3] = ":"
    THEN << << text[i + 1], text[i + 2] >> >> \o FindDefs(text, i + 1)
    ELSE FindDefs(text, i + 1)

IsPyUnder(path, src_rel) ==
  /\ Len(path) > Len(src_rel) + 1
  /\ StartsWithAt(path, 1, src_rel \o <<"/">>)
  /\ path[Len(path)] = ".py"

ModuleName(path) == Replace(SubSeq(path, 1, Len(path) - 1), "/", ".")

RECURSIVE Discover(_, _, _)
\* discover_public_apis over the files in traversal order `walk`:
\* the dict module -> sorted(funcs), modules without a match left out
Discover(files, walk, i) ==
  IF i > Len(walk) THEN << >>
  ELSE LET funcs == FindDefs(files[walk[i]], 1)
       IN (IF funcs = << >> THEN << >>
           ELSE << << ModuleName(walk[i]), Sorted(funcs) >> >>)
          \o Discover(files, walk, i + 1)

discover_public_apis(files, walk) == Discover(files, walk, 1)

\* the items of apis sorted by module
RECURSIVE InsertItem(_, _)
InsertItem(sorted, x) ==
  IF sorted = << >> THEN << x >>
  ELSE IF StrLess(x[1], Head(sorted)[1]) THEN << x >> \o sorted
  ELSE << Head(sorted) >> \o InsertItem(Tail(sorted), x)

RECURSIVE SortedItems(_)
SortedItems(apis) ==
  IF apis = << >> THEN << >> ELSE InsertItem(SortedItems(Tail(apis)), Head(apis))

RECURSIVE Flatten(_)
Flatten(seqs) == IF seqs = << >> THEN << >> ELSE Head(seqs) \o Flatten(Tail(seqs))

\* the text write_public_api_doc writes
PublicApiDoc(apis) ==
  LET items == SortedItems(apis)
  IN <<"# Public Python APIs">>
     \o Flatten([i \in 1..Len(items) |->
                   <<"## ">> \o items[i][1]
                   \o Flatten([k \in 1..Len(items[i][2]) |-> <<"- ">> \o items[i][2][k]])])

\* the text write_fingerprint writes: json.dumps(apis, sort_keys=True)
Fingerprint(apis) ==
  LET items == SortedItems(apis)
  IN <<"{">>
     \o Flatten([i \in 1..Len(items) |->
                   items[i][1] \o <<":", "[">> \o Flatten(items[i][2]) \o <<"]">>])
     \o <<"}">>

DefaultApiDoc == <<"docs", "/", "PUBLIC_APIS.md">>
DefaultFingerprintFile == <<".charter", "/", "api_fingerprint.json">>

SrcRel(charter) ==
  Get(Get(Get(charter, "meta", EmptyDict), "repo_layout", EmptyDict),
      "src_dir", PyStr(<<"src">>)).v
ApiDocPath(charter) ==
  Get(Get(charter, "governance", EmptyDict), "public_api_doc", PyStr(DefaultApiDoc)).v
FingerprintPath(charter) ==
  Get(Get(charter, "governance", EmptyDict), "api_fingerprint_file",
      PyStr(DefaultFingerprintFile)).v

\* a write that is skipped when the file exists
WriteIfMissingFp(files, path, content) ==
  IF path \in DOMAIN files THEN files ELSE WriteText(files, path, content)

\* FreezeEnabled with the flag on when the Charter does not set it
FreezeEnabledByDefault(charter) ==
  Truthy(Get(Get(charter, "governance", EmptyDict), "progressive_freeze", PyBool(TRUE)))

\* the flag progressive_freeze reads first
FreezeEnabled(charter) ==
  Truthy(Get(Get(charter, "governance", EmptyDict), "progressive_freeze", PyBool(FALSE)))

\* progressive_freeze that keeps a fingerprint file that is already there
progressive_freezeKeepOld(charter, files, walk) ==
  IF ~FreezeEnabled(charter)
    THEN files
    ELSE LET apis == discover_public_apis(files, walk)
         IN WriteIfMissingFp(WriteText(files, ApiDocPath(charter), PublicApiDoc(apis)),
                             FingerprintPath(charter), Fingerprint(apis))

\* progressive_freeze(charter): the files afterwards
progressive_freeze(charter, files, walk) ==
  IF ~FreezeEnabled(charter)
    THEN files
    ELSE LET apis == discover_public_apis(files, walk)
         IN WriteText(WriteText(files, ApiDocPath(charter), PublicApiDoc(apis)),
                      FingerprintPath(charter), Fingerprint(apis))

\* the command of a step: commands merges every env's commands, later envs override
CommandFor(charter, step) ==
  LET envs == Get(Get(charter, "runtime", EmptyDict), "envs", EmptyDict).v
      has == {i \in 1..Len(envs) : HasKey(Get(envs[i][2], "commands", EmptyDict), step)}
  IN IF has = {} THEN PyNone
     ELSE Get(Get(envs[CHOOSE i \in has : \A j \in has : j <= i][2], "commands", EmptyDict),
              step, PyNone)

RECURSIVE PlanLoop(_, _, _, _, _, _, _)
\* the loop of run_plan from step i on: [ok, ran]; codes[step] is what sh
\* returns for the step's command, ran the steps executed with their codes
PlanLoop(charter, selected, fail_fast, codes, i, all_ok, ran) ==
  IF i > Len(selected) THEN [ok |-> all_ok, ran |-> ran]
  ELSE LET step == selected[i]
           cmd == CommandFor(charter, step)
           ok == codes[step] = 0
       IN IF ~Truthy(cmd)
            THEN IF fail_fast THEN [ok |-> FALSE, ran |-> ran]
                 ELSE PlanLoop(charter, selected, fail_fast, codes, i + 1, FALSE, ran)
            ELSE IF fail_fast /\ ~ok
                   THEN [ok |-> FALSE, ran |-> Append(ran, [step |-> step, code |-> codes[step]])]
                 ELSE PlanLoop(charter, selected, fail_fast, codes, i + 1, all_ok /\ ok,
                               Append(ran, [step |-> step, code |-> codes[step]]))

\* run_plan that goes on after a failing step whatever fail_fast says
run_planNoBreak(charter, which, codes) ==
  LET oracle_plan == Get(charter, "oracle_plan", EmptyDict)
      plan == Get(oracle_plan, "steps", PyList(<< >>))
      selected == IF which.t = "none" THEN plan ELSE which
  IN PlanLoop(charter, selected.v, FALSE, codes, 1, TRUE, << >>)

\* run_plan(charter, which): which is PyNone for the whole plan
run_plan(charter, which, codes) ==
  LET oracle_plan == Get(charter, "oracle_plan", EmptyDict)
      plan == Get(oracle_plan, "steps", PyList(<< >>))
      selected == IF which.t = "none" THEN plan ELSE which
      fail_fast == Truthy(Get(oracle_plan, "fail_fast", PyBool(TRUE)))
  IN PlanLoop(charter, selected.v, fail_fast, codes, 1, TRUE, << >>)

\* main() of oracle.py for one mode: [rc, ran, files]; ran lists the steps
\* and gates it executed
OracleMain(mode, charter, files, codes, walk) ==
  IF ~CharterExists(charter)
    THEN [rc |-> ConfigStatus, ran |-> << >>, files |-> files]
  ELSE IF mode = "update-apis"
    THEN [rc |-> 0, ran |-> << >>, files |-> progressive_freeze(charter, files, walk)]
    ELSE LET first == CASE mode = "static" -> run_plan(charter, PyList(<<"lint", "typecheck">>), codes)
                        [] mode = "dynamic" -> run_plan(charter, PyList(<<"unit_test", "integration_test">>), codes)
                        [] OTHER -> run_plan(charter, PyNone, codes)
             gates == Get(Get(charter, "governance", EmptyDict), "freeze_after", PyList(<< >>))
             checked == mode = "all" /\ Truthy(gates)
             second == run_plan(charter, gates, codes)
         IN [rc |-> IF first.ok THEN 0 ELSE 1,
             ran |-> IF checked THEN first.ran \o second.ran ELSE first.ran,
             files |-> IF checked /\ second.ok
                         THEN progressive_freeze(charter, files, walk) ELSE files]

(***************************************************************************)
(* tools/scaffold.py                                                       *)
(***************************************************************************)
PKG_INIT == <<"# package", "\n">>
CLI_TEMPLATE == <<"\n", "def ", "main", "()", ":", "\n", " ", "print", "\n">>
PROPERTY_TEST_TEMPLATE == <<"\n", "import pytest", "\n", "property", "\n">>

\* FUNCTION_STUB for one function
FunctionStub(fname, signature) ==
  <<"\n", "def ", fname>> \o signature \o <<":", "\n", " ", "raise", "\n">>

\* SERVICE_TEMPLATE around the stubs of functions, a sequence of [name, signature]
ServiceTemplate(functions) ==
  <<"\n", "Service", "\n">>
  \o (IF functions = << >> THEN <<"pass", "\n">>
      ELSE Flatten([i \in 1..Len(functions) |->
                      FunctionStub(functions[i].name, functions[i].signature)]))

\* UNIT_TEST_TEMPLATE around the imports and the smoke test of each function
UnitTestTemplate(module_path, functions) ==
  <<"\n", "import pytest", "\n">>
  \o (IF functions = << >> THEN <<"import ">> \o module_path
      ELSE <<"from ">> \o module_path \o <<" import ">>
           \o [i \in 1..Len(functions) |-> functions[i].name])
  \o <<"\n">>
  \o (IF functions = << >> THEN <<"def test_import", "\n">>
      ELSE [i \in 1..Len(functions) |-> functions[i].name])

_package_name(ch) ==
  Get(Get(ch, "meta", EmptyDict), "name", PyStr(<<"your_project">>)).v

\* _layout_paths: src_dir and tests_dir
LayoutDir(ch, key, default) ==
  Get(Get(Get(ch, "meta", EmptyDict), "repo_layout", EmptyDict), key, PyStr(default)).v

WriteIfMissing(files, path, content) ==
  IF Exists(files, path) THEN files ELSE WriteText(files, path, content)

RECURSIVE WriteAllIfMissing(_, _, _)
WriteAllIfMissing(files, paths, content) ==
  IF paths = << >> THEN files
  ELSE WriteAllIfMissing(WriteIfMissing(files, Head(paths), content), Tail(paths), content)

\* _ensure_layout: the package's __init__.py files and cli.py, each written
\* only when it does not exist
_ensure_layout(ch, files) ==
  LET pkg_dir == LayoutDir(ch, "src_dir", <<"src">>) \o <<"/">> \o _package_name(ch)
      subs == << << >>, <<"/", "services">>, <<"/", "pipelines">>,
                 <<"/", "adapters">>, <<"/", "utils">> >>
      inits == [i \in 1..Len(subs) |-> pkg_dir \o subs[i] \o <<"/", "__init__", ".py">>]
  IN WriteIfMissing(WriteAllIfMissing(files, inits, PKG_INIT),
                    pkg_dir \o <<"/", "cli", ".py">>, CLI_TEMPLATE)

\* the functions of one API as cmd_from_charter collects them
ApiFunctions(cfg) ==
  LET decl == Get(cfg, "functions", EmptyDict)
      items == IF Truthy(decl) THEN decl.v ELSE << >>
  IN [i \in 1..Len(items) |->
        [name |-> items[i][1],
         signature |-> Get(items[i][2], "signature", PyStr(<<"()">>)).v]]

ModuleFile(module_path) == <<"src", "/">> \o Replace(module_path, ".", "/") \o <<".py">>

\* _write_service_stub: written only when the file does not exist
_write_service_stub(files, module_path, functions) ==
  WriteIfMissing(files, ModuleFile(module_path), ServiceTemplate(functions))

\* _write_tests: both test files are written whether or not they exist
_write_tests(files, tests_dir, module_path, functions) ==
  LET last == LastSegment(module_path)
      unit_py == tests_dir \o <<"/", "test_">> \o last \o <<"_unit", ".py">>
      prop_py == tests_dir \o <<"/", "test_">> \o last \o <<"_property", ".py">>
  IN WriteText(WriteText(files, unit_py, UnitTestTemplate(module_path, functions)),
               prop_py, PROPERTY_TEST_TEMPLATE)

RECURSIVE FromCharterLoop(_, _, _, _)
FromCharterLoop(files, tests_dir, apis, i) ==
  IF i > Len(apis) THEN files
  ELSE LET module == Get(apis[i][2], "module", PyNone)
           fns == ApiFunctions(apis[i][2])
       IN IF ~Truthy(module) THEN FromCharterLoop(files, tests_dir, apis, i + 1)
          ELSE FromCharterLoop(
                 _write_tests(_write_service_stub(files, module.v, fns),
                              tests_dir, module.v, fns),
                 tests_dir, apis, i + 1)

\* _load_charter: {} when the file is missing or empty
_load_charter(ch) == IF CharterExists(ch) /\ Truthy(ch) THEN ch ELSE EmptyDict

cmd_init(charter, files) == _ensure_layout(_load_charter(charter), files)

cmd_from_charter(charter, files) ==
  LET ch == _load_charter(charter)
      ifs == Get(ch, "interfaces", EmptyDict)
      apis == Get(IF Truthy(ifs) THEN ifs ELSE EmptyDict, "apis", EmptyDict)
  IN FromCharterLoop(_ensure_layout(ch, files), LayoutDir(ch, "test_dir", <<"tests">>),
                     apis.v, 1)

(***************************************************************************)
(* The run: main() of tools/ochestrator.py with --run.                     *)
(***************************************************************************)
VARIABLES
  maxRetries,     \* MAX_RETRIES, read from LLM_MAX_RETRIES at import
  charter,        \* the parsed project.charter.yaml
  tasks,          \* planner_out/tasks.json: [exists, data]
  fs,             \* the files under ROOT
  pc,             \* where main() stands
  idx,            \* position in data of the task of the current iteration
  attempt,        \* loop variable of the impl task
  failure_trace,  \* of the impl task
  llm_output,     \* of the current attempt
  content,        \* of the current attempt
  rc,             \* what run_tasks returned
  log             \* history: the collaborator calls and writes made so far

vars == << maxRetries, charter, tasks, fs, pc, idx, attempt, failure_trace,
           llm_output, content, rc, log >>

\* one entry of log: what happened, in which task and attempt, the status it
\* ended with, the steps the oracle executed in a freeze, the failure trace
\* given to a generation, and the text produced or written
Event(ev, st, ran, arg, text) ==
  [ev |-> ev, task |-> idx, attempt |-> attempt, st |-> st, ran |-> ran, arg |-> arg,
   text |-> text]

\* FirstAttempt with the range starting at 0
FirstAttemptZero == 1 - 1
\* the loop of an impl task: for attempt in range(1, MAX_RETRIES + 2)
FirstAttempt == 1
InRange(n) == n < maxRetries + 2

\* FinalAttempt one attempt late
FinalAttemptLate(n) == n >= maxRetries + 2
\* the test of the final attempt
FinalAttempt(n) == n >= maxRetries + 1

\* NoValidBlock testing for the empty string only
NoValidBlockEmptyOnly(c) == c.t = "str" /\ Len(c.v) = 0
\* the test made of the extracted content
NoValidBlock(c) == ~Truthy(c)

\* TestFailed taking status 1 for a pass
TestFailedAboveOne(status) == status > 1
\* the test made of the status of a test task
TestFailed(status) == status # 0

\* AfterProviderError with the exception caught and the call made again
AfterProviderErrorRetry == "generate"
\* an exception of llm.complete is not caught: it ends main()
AfterProviderError == "raised"

\* the status of the process when an exception leaves main()
UncaughtStatus == 1
\* the exit status of the orchestrator once main() is over
ExitStatus == IF pc = "raised" THEN UncaughtStatus ELSE rc

CurrentTask == tasks.data[idx]
Target == CurrentTask.target.v

\* AuditFile without the attempt number
AuditFileNoAttempt(target, n) ==
  <<".charter", "/", "llm_">> \o Replace(target, ".", "_") \o <<".md">>

\* where the raw output of attempt n is saved
AuditFile(target, n) ==
  <<".charter", "/", "llm_">> \o Replace(target, ".", "_")
  \o <<"_attempt", ToString(n), ".md">>

(***************************************************************************)
(* Inputs of the run.                                                      *)
(***************************************************************************)
ModAB == <<"a", ".", "b">>
ModA_B == <<"a", "_", "b">>

RuntimeSection ==
  PyDict(<< <<"envs",
     PyDict(<< <<"local",
        PyDict(<< <<"commands",
           PyDict(<< <<"unit_test", PyStr(<<"pytest">>)>>,
                     <<"integration_test", PyStr(<<"pytest -m integration">>)>> >>)>> >>)>> >>)>> >>)

ApiCfg(module, fname) ==
  PyDict(<< <<"module", PyStr(module)>>,
            <<"functions",
              PyDict(<< <<fname, PyDict(<< <<"signature", PyStr(<<"()">>)>> >>)>> >>)>> >>)

Gates == PyList(<<"unit_test">>)

\* one API; freeze enabled
CharterOne ==
  PyDict(<< <<"interfaces", PyDict(<< <<"apis",
                PyDict(<< << <<"greeter">>, ApiCfg(ModAB, "f") >> >>)>> >>)>>,
            <<"governance", PyDict(<< <<"freeze_after", Gates>>,
                                      <<"progressive_freeze", PyBool(TRUE)>> >>)>>,
            <<"runtime", RuntimeSection>> >>)

\* two APIs whose modules differ in "." and "_"; progressive_freeze absent
CharterTwo ==
  PyDict(<< <<"interfaces", PyDict(<< <<"apis",
                PyDict(<< << <<"greeter">>, ApiCfg(ModAB, "f") >>,
                          << <<"user">>, ApiCfg(ModA_B, "g") >> >>)>> >>)>>,
            <<"governance", PyDict(<< <<"freeze_after", Gates>> >>)>>,
            <<"runtime", RuntimeSection>> >>)

\* one API, progressive_freeze false
CharterOff ==
  PyDict(<< <<"interfaces", PyDict(<< <<"apis",
                PyDict(<< << <<"greeter">>, ApiCfg(ModAB, "f") >> >>)>> >>)>>,
            <<"governance", PyDict(<< <<"freeze_after", Gates>>,
                                      <<"progressive_freeze", PyBool(FALSE)>> >>)>>,
            <<"runtime", RuntimeSection>> >>)

RunCharters == {CharterOne, CharterTwo, CharterOff}

\* a tasks.json left by hand: an impl task with no scaffold before it and a
\* task of a kind the engine does not know
HandTasks ==
  << Task(<<"impl:">> \o <<"greeter">>, "impl", PyStr(ModAB), << >>,
          PyDict(<< <<"mode", PyStr(<<"creative">>)>> >>)),
     Task(<<"doc:">> \o <<"greeter">>, "doc", PyStr(ModAB), << >>, EmptyDict),
     Task(<<"test:">> \o <<"greeter">>, "test", PyStr(ModAB), << >>, EmptyDict),
     FreezeTask(Gates) >>

\* what the generation provider can answer
Block(tag, body) ==
  <<FenceOpen, "\n", "#", " ">> \o tag \o <<"\n">> \o body \o <<FenceClose>>
BodyF == <<"def ", "f", "()", ":", "\n", " ", "return", "\n">>
BodyG == <<"def ", "g", "(x)", ":", "\n", " ", "return", "\n">>
\* a block for each module, a block with no content, and no block
LlmOutputs ==
  { Block(ModAB, BodyF),
    Block(ModA_B, BodyG),
    Block(ModAB, <<"\n">>),
    <<"I cannot help with that.">> }

\* what the test-runner can print
Outputs == { << >>, <<"1 failed">> }

Steps == {"lint", "typecheck", "unit_test", "integration_test"}
\* the exit codes of the commands of the steps in used; the others are not run
CodesOf(used) ==
  {c \in [Steps -> StepCodes] : \A st \in Steps \ used : c[st] = 0}

\* an earlier snapshot, left by an earlier run
OldSnapshot ==
  WriteText(WriteText(<< >>, DefaultApiDoc, <<"# Public Python APIs", "## ", "old">>),
            DefaultFingerprintFile, <<"{", "old", "}">>)

\* a unit-test file of module a.b that was edited by hand after an earlier run
EditedTests ==
  WriteText(<< >>, <<"tests", "/", "test_", "b", "_unit", ".py">>, <<"# edited by hand">>)

\* two source files left by hand whose dotted names are the same, src.x.y.z
SameDottedName ==
  WriteText(WriteText(<< >>, <<"src", "/", "x", "/", "y", ".", "z", ".py">>, BodyF),
            <<"src", "/", "x", ".", "y", "/", "z", ".py">>, BodyG)

InitialFiles == { << >>, OldSnapshot, EditedTests, SameDottedName }

RECURSIVE SetToSeq(_)
SetToSeq(S) ==
  IF S = {} THEN << >>
  ELSE LET x == CHOOSE x \in S : TRUE IN << x >> \o SetToSeq(S \ {x})

\* The traversal orders of rglob("*.py") under src_dir. The files that hold
\* no top-level def add nothing to the result wherever they come, so they
\* are walked last, in one order.
Walks(files, src_rel) ==
  LET py == {q \in DOMAIN files : IsPyUnder(q, src_rel)}
      defs == {q \in py : FindDefs(files[q], 1) # << >>}
      n == Cardinality(defs)
  IN {w \o SetToSeq(py \ defs) :
        w \in {v \in [1..n -> defs] : \A i, j \in 1..n : v[i] = v[j] => i = j}}

(***************************************************************************)
(* Init and the steps of main() and run_tasks().                           *)
(***************************************************************************)
NoTasks == [exists |-> FALSE, data |-> << >>]

Idle ==
  /\ idx = 0
  /\ attempt = 0
  /\ failure_trace = PyNone
  /\ llm_output = << >>
  /\ content = PyNone
  /\ rc = 0
  /\ log = << >>

\* the tasks.json an earlier run compiled from CharterOne
StalePlan == [exists |-> TRUE, data |-> compile_tasks(CharterOne).tasks]

Init ==
  /\ maxRetries \in (0 - 1)..MaxRetryConfig
  /\ \/ /\ charter \in RunCharters
        /\ tasks \in {NoTasks, [exists |-> TRUE, data |-> HandTasks]}
     \/ /\ charter = MissingCharter
        /\ tasks \in {NoTasks, [exists |-> TRUE, data |-> HandTasks], StalePlan}
  /\ fs \in InitialFiles
  /\ pc = "main"
  /\ Idle

\* planner/planner.py main(), as ensure_plan runs it: tasks.json afterwards
PlannerMain(ch, old) ==
  IF ~CharterExists(ch) THEN old
  ELSE LET r == compile_tasks(ch)
       IN IF r.raised THEN old ELSE [exists |-> TRUE, data |-> r.tasks]

\* ensure_plan(), then run_tasks() up to its loop; reading a tasks.json that
\* does not exist raises
EnsurePlan ==
  /\ pc = "main"
  /\ tasks' = IF tasks.exists THEN tasks ELSE PlannerMain(charter, tasks)
  /\ pc' = IF tasks'.exists THEN "loop" ELSE "raised"
  /\ idx' = 1
  /\ UNCHANGED << maxRetries, charter, fs, attempt, failure_trace, llm_output, content,
                  rc, log >>

\* LoopDone looking for one more task after the last
LoopDoneLate(i) == i > Len(tasks.data) + 1
\* for t in data: no task is left
LoopDone(i) == i > Len(tasks.data)

\* the loop is over: return 0
ReturnZero ==
  /\ pc = "loop"
  /\ LoopDone(idx)
  /\ pc' = "returned"
  /\ rc' = 0
  /\ UNCHANGED << maxRetries, charter, tasks, fs, idx, attempt, failure_trace,
                  llm_output, content, log >>

AtTask(kinds) ==
  /\ pc = "loop"
  /\ idx <= Len(tasks.data)
  /\ CurrentTask.kind \in kinds

\* kind == "scaffold": both scaffold.py commands; their status is not read.
\* scaffold.py exits 2 before doing anything when PyYAML is missing.
Scaffold ==
  /\ AtTask({"scaffold"})
  /\ \E ok \in BOOLEAN :
       /\ fs' = IF ok THEN cmd_from_charter(charter, cmd_init(charter, fs)) ELSE fs
       /\ log' = Append(log, Event("scaffold", IF ok THEN 0 ELSE 2, << >>, PyNone, PyNone))
  /\ idx' = idx + 1
  /\ UNCHANGED << maxRetries, charter, tasks, pc, attempt, failure_trace, llm_output,
                  content, rc >>

\* kind == "impl": up to the for statement; reading the Charter text raises
\* when the file is missing; range(1, MAX_RETRIES + 2) may be empty
StartImpl ==
  /\ AtTask({"impl"})
  /\ failure_trace' = PyNone
  /\ log' = Append(log, Event("impl", 0, << >>, PyNone, PyNone))
  /\ IF ~CharterExists(charter)
       THEN attempt' = 0 /\ pc' = "raised" /\ idx' = idx
       ELSE IF InRange(FirstAttempt)
         THEN attempt' = FirstAttempt /\ pc' = "generate" /\ idx' = idx
         ELSE attempt' = 0 /\ pc' = "loop" /\ idx' = idx + 1
  /\ UNCHANGED << maxRetries, charter, tasks, fs, llm_output, content, rc >>

\* AfterGenerate with the response parsed before anything is saved
AfterGenerateExtract == "extract"
\* the statement after llm.complete: the raw output is saved
AfterGenerate == "save_raw"

\* render_prompt and llm.complete: it returns text or raises
Generate ==
  /\ pc = "generate"
  /\ LET extra == render_prompt(Target,
                                Get(CurrentTask.detail, "mode", PyStr(<<"template">>)),
                                failure_trace).extra
     IN \/ \E out \in LlmOutputs :
             /\ llm_output' = out
             /\ pc' = AfterGenerate
             /\ log' = Append(log, Event("generate", 0, << >>, extra, PyStr(out)))
        \/ /\ llm_output' = llm_output
           /\ pc' = AfterProviderError
           /\ log' = Append(log, Event("generate", 1, << >>, extra, PyNone))
  /\ UNCHANGED << maxRetries, charter, tasks, fs, idx, attempt, failure_trace, content, rc >>

\* the raw output is written under .charter
SaveRaw ==
  /\ pc = "save_raw"
  /\ fs' = WriteText(fs, AuditFile(Target, attempt), llm_output)
  /\ log' = Append(log, Event("audit", 0, << >>, PyNone, PyStr(llm_output)))
  /\ pc' = "extract"
  /\ UNCHANGED << maxRetries, charter, tasks, idx, attempt, failure_trace, llm_output,
                  content, rc >>

\* extract_code_block; no content: return 1
Extract ==
  /\ pc = "extract"
  /\ content' = extract_code_block(Target, llm_output)
  /\ IF NoValidBlock(content')
       THEN pc' = "returned" /\ rc' = 1
       ELSE pc' = "write_module" /\ rc' = rc
  /\ UNCHANGED << maxRetries, charter, tasks, fs, idx, attempt, failure_trace,
                  llm_output, log >>

\* the content is written to the module's file
WriteModule ==
  /\ pc = "write_module"
  /\ fs' = WriteText(fs, ModuleFile(Target), content.v)
  /\ log' = Append(log, Event("write", 0, << >>, PyNone, content))
  /\ pc' = "run_tests"
  /\ UNCHANGED << maxRetries, charter, tasks, idx, attempt, failure_trace, llm_output,
                  content, rc >>

\* sh_capture of oracle.py --dynamic, and what the loop does with its status
RunTests ==
  /\ pc = "run_tests"
  /\ \E codes \in CodesOf({"unit_test", "integration_test"}), out \in Outputs :
       LET r == OracleMain("dynamic", charter, fs, codes, << >>)
       IN /\ log' = Append(log, Event("test", r.rc, << >>, PyNone, PyStr(out)))
          /\ IF r.rc = 0
               THEN /\ pc' = "loop" /\ idx' = idx + 1 /\ attempt' = 0
                    /\ UNCHANGED << failure_trace, rc >>
               ELSE /\ failure_trace' = PyStr(out)
                    /\ IF FinalAttempt(attempt)
                         THEN pc' = "returned" /\ rc' = r.rc /\ attempt' = attempt
                                              /\ idx' = idx
                         ELSE IF InRange(attempt + 1)
                           THEN pc' = "generate" /\ rc' = rc /\ attempt' = attempt + 1
                                                 /\ idx' = idx
                           ELSE pc' = "loop" /\ rc' = rc /\ attempt' = 0
                                             /\ idx' = idx + 1
  /\ llm_output' = << >>
  /\ content' = PyNone
  /\ UNCHANGED << maxRetries, charter, tasks, fs >>

\* kind == "test": oracle.py --dynamic once; a non-zero status is returned
TestTask ==
  /\ AtTask({"test"})
  /\ \E codes \in CodesOf({"unit_test", "integration_test"}) :
       LET r == OracleMain("dynamic", charter, fs, codes, << >>)
       IN /\ log' = Append(log, Event("test", r.rc, << >>, PyNone, PyNone))
          /\ IF TestFailed(r.rc)
               THEN pc' = "returned" /\ rc' = r.rc /\ idx' = idx
               ELSE pc' = pc /\ rc' = rc /\ idx' = idx + 1
  /\ UNCHANGED << maxRetries, charter, tasks, fs, attempt, failure_trace, llm_output,
                  content >>

\* kind == "freeze": oracle.py --update-apis; its status is not read
Freeze ==
  /\ AtTask({"freeze"})
  /\ \E walk \in (IF CharterExists(charter) THEN Walks(fs, SrcRel(charter)) ELSE {<< >>}) :
       LET r == OracleMain("update-apis", charter, fs, CHOOSE c \in CodesOf({}) : TRUE, walk)
       IN /\ fs' = r.files
          /\ log' = Append(log, Event("freeze", r.rc, r.ran,
                                      IF CharterExists(charter)
                                        THEN PyList(FileState(fs, FingerprintPath(charter)))
                                        ELSE PyNone,
                                      PyBool(r.files # fs)))
  /\ idx' = idx + 1
  /\ UNCHANGED << maxRetries, charter, tasks, pc, attempt, failure_trace, llm_output,
                  content, rc >>

\* AfterUnknownKind with the run ended at the task
AfterUnknownKindStop == "returned"
\* after the else branch the for loop goes on
AfterUnknownKind == "loop"

\* any other kind: a message is printed
UnknownKind ==
  /\ pc = "loop"
  /\ idx <= Len(tasks.data)
  /\ CurrentTask.kind \notin {"scaffold", "impl", "test", "freeze"}
  /\ log' = Append(log, Event("unknown", 0, << >>, PyNone, PyNone))
  /\ idx' = idx + 1
  /\ pc' = AfterUnknownKind
  /\ UNCHANGED << maxRetries, charter, tasks, fs, attempt, failure_trace,
                  llm_output, content, rc >>

Next ==
  \/ EnsurePlan
  \/ ReturnZero
  \/ Scaffold
  \/ StartImpl
  \/ Generate
  \/ SaveRaw
  \/ Extract
  \/ WriteModule
  \/ RunTests
  \/ TestTask
  \/ Freeze
  \/ UnknownKind

Spec == Init /\ [][Next]_vars

\* The run when the process keeps running: the interpreter takes the next
\* step and every collaborator call returns (or raises). Weak fairness of
\* each step; for the steps that compute with recursive operators it is
\* written out, with the guard of the step in place of ENABLED.
LightSteps ==
  EnsurePlan \/ ReturnZero \/ StartImpl \/ Generate \/ SaveRaw \/ WriteModule \/ UnknownKind
HeavySteps == Extract \/ Scaffold \/ RunTests \/ TestTask \/ Freeze
HeavyPending == pc \in {"extract", "run_tests"} \/ AtTask({"scaffold", "test", "freeze"})

SpecLive ==
  /\ Init
  /\ [][Next]_vars
  /\ WF_vars(LightSteps)
  /\ ([]<>(~HeavyPending) \/ []<><<HeavySteps>>_vars)

(***************************************************************************)
(* The planner alone: planner/planner.py main() over many Charters.        *)
(***************************************************************************)
Absent == [t |-> "absent", v |-> 0]
Section(key, x) == IF x.t = "absent" THEN << >> ELSE << << key, x >> >>

ApiNames == << <<"greeter">>, <<"user">>, <<"admin">>, <<"audit">> >>
\* what an API can declare: a module, no module, a null or empty module
CfgOpts ==
  { PyDict(<< <<"module", PyStr(ModAB)>> >>),
    PyDict(<< <<"functions", EmptyDict>> >>),
    PyDict(<< <<"module", PyNone>> >>),
    PyDict(<< <<"module", PyStr(<< >>)>> >>) }

\* the apis mappings of up to MaxApis entries: distinct names in any order
ApiMaps ==
  UNION { { [i \in 1..n |-> << ApiNames[order[i]], cfg[i] >>] :
              order \in {o \in [1..n -> 1..Len(ApiNames)] :
                           \A i, j \in 1..n : o[i] = o[j] => i = j},
              cfg \in [1..n -> CfgOpts] } :
          n \in 0..MaxApis }

MetaOpts ==
  { Absent, PyNone, EmptyDict,
    PyDict(<< <<"repo_layout", PyNone>> >>),
    PyDict(<< <<"repo_layout", PyDict(<< <<"src_dir", PyStr(<<"lib">>)>> >>)>> >>) }

InterfacesOpts ==
  { Absent, PyNone, EmptyDict, PyDict(<< <<"apis", PyNone>> >>) }
  \cup { PyDict(<< <<"apis", PyDict(m)>> >>) : m \in ApiMaps }

GovernanceOpts ==
  { Absent, PyNone, EmptyDict,
    PyDict(<< <<"freeze_after", PyList(<<"unit_test">>)>> >>),
    PyDict(<< <<"freeze_after", PyList(<<"lint", "unit_test">>)>>,
              <<"progressive_freeze", PyBool(TRUE)>> >>) }

PlanCharters ==
  { PyDict(Section("meta", m) \o Section("interfaces", i) \o Section("governance", g)) :
      m \in MetaOpts, i \in InterfacesOpts, g \in GovernanceOpts }

InitPlan ==
  /\ maxRetries = DefaultMaxRetries
  /\ charter \in PlanCharters
  /\ tasks = NoTasks
  /\ fs = << >>
  /\ pc = "plan"
  /\ Idle

\* main() of planner.py: tasks.json is written unless compile_tasks raised
Plan ==
  /\ pc = "plan"
  /\ tasks' = PlannerMain(charter, tasks)
  /\ pc' = IF compile_tasks(charter).raised THEN "raised" ELSE "planned"
  /\ UNCHANGED << maxRetries, charter, fs, idx, attempt, failure_trace, llm_output,
                  content, rc, log >>

NextPlan == Plan

SpecPlan == InitPlan /\ [][NextPlan]_vars

(***************************************************************************)
(* Properties.                                                             *)
(***************************************************************************)
ImplTasks == {i \in 1..Len(tasks.data) : tasks.data[i].kind = "impl"}
TargetOf(i) == tasks.data[i].target.v
Gens(i) == SelectSeq(log, LAMBDA e : e.ev = "generate" /\ e.task = i)
Tests(i) == SelectSeq(log, LAMBDA e : e.ev = "test" /\ e.task = i)
\* task i has been dispatched and the engine has left it
TaskOver(i) == idx > i \/ (idx = i /\ pc \in {"returned", "raised"})
\* every generation call of task i returned text with a non-empty block for its target
AllValid(i) ==
  \A j \in 1..Len(Gens(i)) :
    /\ Gens(i)[j].text.t = "str"
    /\ Truthy(extract_code_block(TargetOf(i), Gens(i)[j].text.v))
AllFailed(i) == \A j \in 1..Len(Tests(i)) : Tests(i)[j].st # 0
LastEvent == log[Len(log)]

\* C1: an impl task makes at most 1 + MAX_RETRIES generation calls, and its
\* j-th call is made with attempt number j.
C1_AttemptsBoundedAndCounted ==
  \A i \in ImplTasks :
    /\ Len(Gens(i)) <= 1 + maxRetries
    /\ \A j \in 1..Len(Gens(i)) : Gens(i)[j].attempt = j

C1_Witness ==
  \E i \in ImplTasks : Len(Gens(i)) = 3 /\ maxRetries = 2 /\ pc = "returned"

\* C2: when every response holds a valid block and every test-runner call of
\* an impl task failed, the task made exactly 1 + MAX_RETRIES generation
\* calls, run_tasks returned the status of the last test-runner call, and no
\* later task was dispatched.
C2_ExhaustionReturnsLastStatus ==
  \A i \in ImplTasks :
    (TaskOver(i) /\ Len(Tests(i)) >= 1 /\ AllValid(i) /\ AllFailed(i))
      => /\ Len(Gens(i)) = 1 + maxRetries
         /\ pc = "returned"
         /\ rc = Tests(i)[Len(Tests(i))].st
         /\ rc # 0
         /\ idx = i
         /\ \A k \in 1..Len(log) : log[k].task <= i

C2_Witness ==
  /\ pc = "returned"
  /\ maxRetries = 2
  /\ \E i \in ImplTasks : Len(Tests(i)) = 3 /\ AllValid(i) /\ AllFailed(i)

\* the audit location of attempt n of an impl task with the given target
AuditLocation(target, n) ==
  <<".charter", "/", "llm_">> \o [i \in 1..Len(target) |-> IF target[i] = "." THEN "_" ELSE target[i]]
  \o <<"_attempt", ToString(n), ".md">>

\* C3: once the test-runner returned 0 on attempt k of an impl task, exactly k
\* generation calls were made for it, an audit file exists for each of the
\* attempts 1..k, and the engine is past the task.
C3_PassAtAttemptK ==
  \A i \in ImplTasks : \A t \in 1..Len(Tests(i)) :
    Tests(i)[t].st = 0
      => LET k == Tests(i)[t].attempt
         IN /\ t = k
            /\ k <= 1 + maxRetries
            /\ Len(Gens(i)) = k
            /\ \A j \in 1..k : AuditLocation(TargetOf(i), j) \in DOMAIN fs
            /\ idx > i

C3_Witness ==
  \E i \in ImplTasks :
    /\ Len(Tests(i)) = 2
    /\ Tests(i)[1].st # 0
    /\ Tests(i)[2].st = 0
    /\ maxRetries = 1

\* C4: when the text of a generation call holds no block tagged for the
\* target, no later generation call is made, the module file is not written
\* and the test-runner is not called in that attempt, and run_tasks returns a
\* non-zero status from that task.
C4_MissingBlockAborts ==
  \A k \in 1..Len(log) :
    (/\ log[k].ev = "generate"
     /\ log[k].text.t = "str"
     /\ extract_code_block(TargetOf(log[k].task), log[k].text.v).t = "none")
      => /\ \A m \in (k + 1)..Len(log) : log[m].ev = "audit" /\ m = k + 1
         /\ pc \in {"save_raw", "extract", "returned"}
         /\ pc = "returned" => (rc # 0 /\ idx = log[k].task)

C4_Witness ==
  /\ pc = "returned"
  /\ maxRetries = 2
  /\ Len(log) >= 2
  /\ log[Len(log) - 1].ev = "generate"
  /\ log[Len(log) - 1].attempt = 1
  /\ extract_code_block(TargetOf(idx), log[Len(log) - 1].text.v).t = "none"

\* C5: when a generation call raises, nothing happens after it: no further
\* call, no audit record, no module file, no later task, and main() ends with
\* the exception.
C5_ProviderErrorAbortsRun ==
  \A k \in 1..Len(log) :
    (log[k].ev = "generate" /\ log[k].st # 0)
      => /\ k = Len(log)
         /\ pc = "raised"
         /\ idx = log[k].task
         /\ AuditLocation(TargetOf(idx), log[k].attempt) \in DOMAIN fs
              => \E m \in 1..(k - 1) :
                   /\ log[m].ev = "audit"
                   /\ AuditLocation(TargetOf(log[m].task), log[m].attempt)
                        = AuditLocation(TargetOf(idx), log[k].attempt)

C5_Witness ==
  /\ pc = "raised"
  /\ log # << >>
  /\ LastEvent.ev = "generate"
  /\ LastEvent.st # 0
  /\ LastEvent.attempt = 2

\* a fatal failure: a failed test-runner call of a test task, or of the last
\* attempt of an impl task
Fatal(e) ==
  /\ e.ev = "test"
  /\ e.st # 0
  /\ \/ tasks.data[e.task].kind = "test"
     \/ tasks.data[e.task].kind = "impl" /\ e.attempt >= 1 + maxRetries
\* run_tasks returned because a response held no valid block
FormatAbort == pc = "returned" /\ log # << >> /\ LastEvent.ev = "audit"

\* C6: tasks are dispatched in list order, one at a time; a fatal failure is
\* the last thing that happens, run_tasks returns its status and no later task
\* is dispatched; without one, run_tasks returns 0 after the last task.
C6_InOrderStopAtFirstFatal ==
  /\ log # << >> => log[1].task = 1
  /\ \A k \in 1..(Len(log) - 1) :
       log[k + 1].task = log[k].task \/ log[k + 1].task = log[k].task + 1
  /\ \A i \in 1..Len(tasks.data) : i < idx => \E k \in 1..Len(log) : log[k].task = i
  /\ \A k \in 1..Len(log) :
       Fatal(log[k]) => /\ k = Len(log)
                        /\ pc = "returned"
                        /\ rc = log[k].st
                        /\ idx = log[k].task
  /\ (pc = "returned" /\ rc = 0) => idx = Len(tasks.data) + 1
  /\ (pc = "returned" /\ ~FormatAbort /\ ~\E k \in 1..Len(log) : Fatal(log[k]))
       => rc = 0 /\ idx = Len(tasks.data) + 1

C6_Witness ==
  /\ pc = "returned"
  /\ rc # 0
  /\ tasks.data[idx].kind = "test"
  /\ idx < Len(tasks.data)

\* C7: in a freeze step with progressive_freeze enabled, the snapshot files
\* are written only if every gate of the task's gate list was executed in
\* that step and passed.
C7_SnapshotOnlyAfterGates ==
  \A k \in 1..Len(log) :
    (log[k].ev = "freeze" /\ log[k].text.v)
      => \A g \in 1..Len(Get(tasks.data[log[k].task].detail, "gates", PyList(<< >>)).v) :
           \E r \in 1..Len(log[k].ran) :
             /\ log[k].ran[r].step
                  = Get(tasks.data[log[k].task].detail, "gates", PyList(<< >>)).v[g]
             /\ log[k].ran[r].code = 0

\* progressive_freeze is false or not set in the Charter
FlagOff ==
  /\ CharterExists(charter)
  /\ LET g == Get(charter, "governance", EmptyDict)
     IN ~HasKey(g, "progressive_freeze") \/ Get(g, "progressive_freeze", PyNone) = PyBool(FALSE)

\* C8: with progressive_freeze false or absent, the freeze step leaves the
\* API listing and the fingerprint file as they were, ends with status 0 and
\* the run goes on to the next task.
C8_DisabledFreezeWritesNothing ==
  [][(pc = "loop" /\ idx <= Len(tasks.data) /\ tasks.data[idx].kind = "freeze" /\ FlagOff)
       => /\ FileState(fs', DefaultApiDoc) = FileState(fs, DefaultApiDoc)
          /\ FileState(fs', DefaultFingerprintFile) = FileState(fs, DefaultFingerprintFile)
          /\ fs' = fs
          /\ log'[Len(log')].ev = "freeze"
          /\ log'[Len(log')].st = 0
          /\ pc' = "loop"
          /\ idx' = idx + 1
          /\ rc' = rc]_vars

C8_Witness ==
  /\ FlagOff
  /\ log # << >>
  /\ LastEvent.ev = "freeze"
  /\ DefaultFingerprintFile \in DOMAIN fs
  /\ fs[DefaultFingerprintFile] = <<"{", "old", "}">>

\* the APIs of the Charter that have a module path, in the Charter's order
WithModule ==
  SelectSeq(Get(Get(charter, "interfaces", EmptyDict), "apis", EmptyDict).v,
            LAMBDA it : HasKey(it[2], "module") /\ Truthy(Get(it[2], "module", PyNone)))

\* C9: for a Charter with N APIs that have a module path, the compiled list
\* holds 1 + 2N + 1 tasks: layout:ensure without deps, then per API in order
\* impl:<api> (deps layout:ensure) and test:<api> (deps impl:<api>), then the
\* one freeze:checkpoint.
C9_TaskListShape ==
  pc = "planned"
    => LET d == tasks.data
           w == WithModule
           n == Len(w)
       IN /\ Len(d) = 1 + 2 * n + 1
          /\ d[1].id = <<"layout:ensure">> /\ d[1].kind = "scaffold" /\ d[1].deps = << >>
          /\ \A j \in 1..n :
               /\ d[2 * j].id = <<"impl:">> \o w[j][1]
               /\ d[2 * j].kind = "impl"
               /\ d[2 * j].target = Get(w[j][2], "module", PyNone)
               /\ d[2 * j].deps = << <<"layout:ensure">> >>
               /\ d[2 * j + 1].id = <<"test:">> \o w[j][1]
               /\ d[2 * j + 1].kind = "test"
               /\ d[2 * j + 1].target = Get(w[j][2], "module", PyNone)
               /\ d[2 * j + 1].deps = << <<"impl:">> \o w[j][1] >>
          /\ d[Len(d)].id = <<"freeze:checkpoint">>
          /\ d[Len(d)].kind = "freeze"
          /\ Cardinality({k \in 1..Len(d) : d[k].kind = "freeze"}) = 1

C9_Witness ==
  /\ pc = "planned"
  /\ Len(tasks.data) = 6
  /\ Len(Get(Get(charter, "interfaces", EmptyDict), "apis", EmptyDict).v) > Len(WithModule)

\* C10: the deps of freeze:checkpoint are exactly the ids of the test tasks
\* of the list, and its detail carries the configured freeze_after gates.
C10_FreezeDependsOnAllTests ==
  pc = "planned"
    => LET d == tasks.data
           f == d[Len(d)]
       IN /\ {f.deps[k] : k \in 1..Len(f.deps)}
               = {d[k].id : k \in {m \in 1..Len(d) : d[m].kind = "test"}}
          /\ Len(f.deps) = Len(WithModule)
          /\ Get(f.detail, "gates", PyNone)
               = Get(Get(charter, "governance", EmptyDict), "freeze_after", PyList(<< >>))

\* C11: in a compiled list the task ids are pairwise distinct, and every id
\* in the deps of a task is the id of a task at a strictly earlier position.
C11_UniqueIdsDepsEarlier ==
  pc = "planned"
    => LET d == tasks.data
       IN /\ \A i, j \in 1..Len(d) : d[i].id = d[j].id => i = j
          /\ \A i \in 1..Len(d) : \A k \in 1..Len(d[i].deps) :
               \E j \in 1..(i - 1) : d[j].id = d[i].deps[k]

C11_Witness ==
  /\ pc = "planned"
  /\ Len(tasks.data) = 8
  /\ \E i \in 1..Len(tasks.data) : Len(tasks.data[i].deps) = 1 /\ tasks.data[i].kind = "test"

\* the value of section k of d, or None when d is no mapping or has no key k
SectionOf(d, k) == IF d.t = "dict" THEN Get(d, k, PyNone) ELSE PyNone
\* a section is absent: the key is missing, or its value is null or empty
AbsentSection(x) == ~Truthy(x)
MetaSection == SectionOf(charter, "meta")
LayoutSection == SectionOf(MetaSection, "repo_layout")
InterfacesSection == SectionOf(charter, "interfaces")
ApisSection == SectionOf(InterfacesSection, "apis")
GovernanceSection == SectionOf(charter, "governance")
GatesSection == SectionOf(GovernanceSection, "freeze_after")

\* C12: when one of the sections meta, meta.repo_layout, interfaces,
\* interfaces.apis, governance, governance.freeze_after is absent (missing,
\* null or empty), compilation does not raise and the list is the one of the
\* empty default: target src for the layout task, no API tasks, no gates;
\* no file is written.
C12_TotalOverIncompleteCharters ==
  (/\ pc # "plan"
   /\ \E x \in {MetaSection, LayoutSection, InterfacesSection, ApisSection,
                 GovernanceSection, GatesSection} : AbsentSection(x))
    => /\ pc = "planned"
       /\ tasks.exists
       /\ AbsentSection(LayoutSection) => tasks.data[1].target = PyStr(<<"src">>)
       /\ AbsentSection(ApisSection) => Len(tasks.data) = 2
       /\ AbsentSection(GatesSection)
            => ~Truthy(Get(tasks.data[Len(tasks.data)].detail, "gates", PyNone))
       /\ fs = << >>

\* C13: a scaffold step leaves every file that exists before it with the
\* content it had.
C13_ScaffoldKeepsExistingFiles ==
  [][AtTask({"scaffold"}) => \A p \in DOMAIN fs : p \in DOMAIN fs' /\ fs'[p] = fs[p]]_vars

\* the statuses run_tasks returns for a failing task when the Charter is there
FailingTaskStatuses == {1}

\* C14: when the Charter file is missing at the start of the run, no task is
\* dispatched (no scaffold, generation, test-runner or freeze call), and the
\* run ends with a status that is neither 0 nor the status of a failing task.
C14_MissingCharterAbortsFirst ==
  ~CharterExists(charter)
    => /\ log = << >>
       /\ pc \in {"returned", "raised"} => ExitStatus \notin ({0} \cup FailingTaskStatuses)

\* C15: no audit write goes to a location that already holds the raw
\* response of an earlier attempt of the run.
C15_AuditNeverOverwritten ==
  [][pc = "save_raw" => AuditLocation(Target, attempt) \notin DOMAIN fs]_vars

\* the text that labels output out as the trace of the previous failed attempt
LabeledTrace(out) ==
  <<"\n", "\n", "Previous attempt failed. Here is the failure trace:", "\n", "<fence>", "\n">>
  \o out \o <<"\n", "<fence>", "\n", "Fix the root cause.">>

\* C16: in an impl task the request of attempt 1 carries no failure trace,
\* and the request of attempt k > 1 carries, labeled as the previous failed
\* attempt, the output of the test-runner call of attempt k - 1, whatever
\* that output was.
C16_RetryCarriesLastTrace ==
  \A i \in ImplTasks : \A j \in 1..Len(Gens(i)) :
    IF Gens(i)[j].attempt = 1
      THEN Gens(i)[j].arg = PyStr(<< >>)
      ELSE /\ Len(Tests(i)) >= j - 1
           /\ Tests(i)[j - 1].attempt = Gens(i)[j].attempt - 1
           /\ Gens(i)[j].arg = PyStr(LabeledTrace(Tests(i)[j - 1].text.v))

\* the kinds run_tasks has a branch for
KnownKinds == {"scaffold", "impl", "test", "freeze"}

\* C17: the step of a task of any other kind only logs the task: no file
\* changes, no status is set, the run does not end, and the next task of
\* the list is the one dispatched next.
C17_UnknownKindSkipped ==
  [][(pc = "loop" /\ idx <= Len(tasks.data) /\ tasks.data[idx].kind \notin KnownKinds)
       => /\ fs' = fs
          /\ rc' = rc
          /\ pc' = "loop"
          /\ idx' = idx + 1
          /\ log' = Append(log, log'[Len(log')])
          /\ log'[Len(log')].ev = "unknown"
          /\ log'[Len(log')].st = 0]_vars

C17_Witness ==
  \E k \in 1..Len(log) :
    /\ log[k].ev = "unknown"
    /\ \E m \in (k + 1)..Len(log) : log[m].task = log[k].task + 1 /\ log[m].ev = "test"

\* a freeze step that writes: the Charter is there and progressive_freeze is on
FreezeWrites ==
  /\ pc = "loop"
  /\ idx <= Len(tasks.data)
  /\ tasks.data[idx].kind = "freeze"
  /\ CharterExists(charter)
  /\ Truthy(Get(Get(charter, "governance", EmptyDict), "progressive_freeze", PyBool(FALSE)))

\* C18: after a freeze step that writes, the fingerprint file and the API
\* listing both hold the rendering of one scan of the source tree as it is at
\* that step, whatever they held before, and no other file has changed.
C18_FreezeIsFullResnapshot ==
  [][FreezeWrites
       => \E walk \in Walks(fs, SrcRel(charter)) :
            LET apis == discover_public_apis(fs, walk)
            IN /\ FileState(fs', FingerprintPath(charter)) = << Fingerprint(apis) >>
               /\ FileState(fs', ApiDocPath(charter)) = << PublicApiDoc(apis) >>
               /\ \A q \in DOMAIN fs' \ {FingerprintPath(charter), ApiDocPath(charter)} :
                    FileState(fs, q) = << fs'[q] >>]_vars

C18_Witness ==
  /\ log # << >>
  /\ LastEvent.ev = "freeze"
  /\ LastEvent.arg = PyList(<< <<"{", "old", "}">> >>)
  /\ fs[DefaultFingerprintFile] # <<"{", "old", "}">>
  /\ fs[DefaultApiDoc] # <<"# Public Python APIs", "## ", "old">>

\* C19: the fingerprint a freeze step writes is the one every traversal
\* order of the source tree gives.
C19_FingerprintOrderIndependent ==
  [][FreezeWrites
       => \A walk \in Walks(fs, SrcRel(charter)) :
            FileState(fs', FingerprintPath(charter))
              = << Fingerprint(discover_public_apis(fs, walk)) >>]_vars

(***************************************************************************)
(* The two write_text calls, step by step, beside a process that reads the *)
(* files: Path.write_text opens the file for writing, which empties it,    *)
(* then the data reaches the file in one or more writes.                   *)
(***************************************************************************)
\* largest number of reads the reading process makes
MaxReads == 2

\* the files an earlier run over CharterOne left: the layout, the stub of
\* module a.b, its tests, and a snapshot
ReaderFiles == cmd_from_charter(CharterOne, cmd_init(CharterOne, OldSnapshot))

\* open(path, "w"): the file is there and empty
OpenForWriting(files, path) == WriteText(files, path, << >>)

\* the fingerprint write_fingerprint is writing: the source tree does not
\* change while it is written
FingerprintData ==
  Fingerprint(discover_public_apis(fs, CHOOSE w \in Walks(fs, SrcRel(charter)) : TRUE))

InitReader ==
  /\ maxRetries = DefaultMaxRetries
  /\ charter = CharterOne
  /\ tasks = StalePlan
  /\ fs = ReaderFiles
  /\ pc = "open_module"
  /\ idx = 2
  /\ attempt = 1
  /\ failure_trace = PyNone
  /\ llm_output \in {out \in LlmOutputs : Truthy(extract_code_block(ModAB, out))}
  /\ content = extract_code_block(ModAB, llm_output)
  /\ rc = 0
  /\ log = << >>

\* out_path.write_text(content): the file is opened
OpenModule ==
  /\ pc = "open_module"
  /\ fs' = OpenForWriting(fs, ModuleFile(Target))
  /\ pc' = "write_module_data"
  /\ UNCHANGED << maxRetries, charter, tasks, idx, attempt, failure_trace, llm_output,
                  content, rc, log >>

\* out_path.write_text(content): more of the data reaches the file
WriteModuleData ==
  /\ pc = "write_module_data"
  /\ \E n \in (Len(fs[ModuleFile(Target)]) + 1)..Len(content.v) :
       /\ fs' = WriteText(fs, ModuleFile(Target), SubSeq(content.v, 1, n))
       /\ pc' = IF n = Len(content.v) THEN "open_fingerprint" ELSE pc
  /\ UNCHANGED << maxRetries, charter, tasks, idx, attempt, failure_trace, llm_output,
                  content, rc, log >>

\* fp_path.write_text(...): the file is opened
OpenFingerprint ==
  /\ pc = "open_fingerprint"
  /\ fs' = OpenForWriting(fs, FingerprintPath(charter))
  /\ pc' = "write_fingerprint_data"
  /\ UNCHANGED << maxRetries, charter, tasks, idx, attempt, failure_trace, llm_output,
                  content, rc, log >>

\* fp_path.write_text(...): more of the data reaches the file
WriteFingerprintData ==
  /\ pc = "write_fingerprint_data"
  /\ \E n \in (Len(fs[FingerprintPath(charter)]) + 1)..Len(FingerprintData) :
       /\ fs' = WriteText(fs, FingerprintPath(charter), SubSeq(FingerprintData, 1, n))
       /\ pc' = IF n = Len(FingerprintData) THEN "written" ELSE pc
  /\ UNCHANGED << maxRetries, charter, tasks, idx, attempt, failure_trace, llm_output,
                  content, rc, log >>

\* another process reads one of the two files
Read ==
  /\ Len(log) < MaxReads
  /\ \E path \in {ModuleFile(Target), FingerprintPath(charter)} :
       log' = Append(log, Event("read", 0, << >>, PyStr(path), PyList(FileState(fs, path))))
  /\ UNCHANGED << maxRetries, charter, tasks, fs, pc, idx, attempt, failure_trace,
                  llm_output, content, rc >>

NextReader ==
  \/ OpenModule
  \/ WriteModuleData
  \/ OpenFingerprint
  \/ WriteFingerprintData
  \/ Read

SpecReader == InitReader /\ [][NextReader]_vars

\* the complete contents a reader may see: what the file held before the
\* run's write and what the write puts there
CompleteContents(path) ==
  IF path = ModuleFile(Target)
    THEN {ReaderFiles[path], content.v}
    ELSE {ReaderFiles[path],
          Fingerprint(discover_public_apis(
            WriteText(ReaderFiles, ModuleFile(Target), content.v),
            CHOOSE w \in Walks(ReaderFiles, SrcRel(charter)) : TRUE))}

\* C20: whenever another process reads the module's source file or the
\* fingerprint file, it sees the complete previous content or the complete
\* new content.
C20_WritesAtomicForReaders ==
  \A k \in 1..Len(log) :
    log[k].ev = "read"
      => \E c \in CompleteContents(log[k].arg.v) : log[k].text = PyList(<< c >>)

\* main() is over: run_tasks returned a status or an exception ended it
Terminated == pc \in {"returned", "raised"}

\* C21: when every collaborator call returns, the run ends: run_tasks
\* returns a status (or main() ends with the provider's exception) after
\* finitely many steps, for every task list and MAX_RETRIES explored.
C21_RunTerminates == <>Terminated

C21_Witness ==
  /\ pc = "returned"
  /\ rc = 0
  /\ maxRetries = 2
  /\ \E i \in ImplTasks : Len(Tests(i)) = 3 /\ Tests(i)[3].st = 0

\* C22: the engine goes past an impl task only after at least one generation
\* call was made for it and its last test-runner call returned 0, for every
\* MAX_RETRIES.
C22_SuccessNeedsPassingAttempt ==
  \A i \in ImplTasks :
    idx > i
      => /\ Len(Gens(i)) >= 1
         /\ Len(Tests(i)) >= 1
         /\ Tests(i)[Len(Tests(i))].st = 0

\* the task list is the one compile_tasks produces for the Charter
CompiledList ==
  /\ CharterExists(charter)
  /\ tasks.exists
  /\ tasks.data = compile_tasks(charter).tasks
EventsOf(j) == SelectSeq(log, LAMBDA e : e.task = j)
\* task j was dispatched and the last status of its collaborator is 0
Succeeded(j) == EventsOf(j) # << >> /\ EventsOf(j)[Len(EventsOf(j))].st = 0

\* C23: in a run of a compiled list, a task is dispatched only after every
\* task named in its deps was dispatched and ended with status 0; an impl
\* task is not dispatched after a failed scaffold step, and the freeze task
\* not before every test task has passed.
C23_DispatchedAfterDepsSucceeded ==
  CompiledList
    => \A k \in 1..Len(log) :
         LET i == log[k].task
             d == tasks.data
         IN /\ \A n \in 1..Len(d[i].deps) :
                 \E j \in 1..(i - 1) : d[j].id = d[i].deps[n] /\ Succeeded(j)
            /\ d[i].kind = "impl"
                 => \A j \in 1..(i - 1) : d[j].kind = "scaffold" => Succeeded(j)
            /\ d[i].kind = "freeze"
                 => \A j \in 1..Len(d) : d[j].kind = "test" => Succeeded(j)

\* what happened in attempt a of impl task i, in order
AttemptEvents(i, a) ==
  SelectSeq(log, LAMBDA e : e.task = i /\ e.attempt = a /\ e.ev # "impl")
StepOrder == <<"generate", "audit", "write", "test">>

\* C24: in every attempt of an impl task the calls and writes come in the
\* order generate, save raw response, write extracted content, run the
\* test-runner; a response that was returned is the next thing saved, as it
\* is, in the attempt's audit file, whether or not it holds a valid block;
\* the module file holds the content extracted from the attempt's response
\* when the test-runner is called.
C24_AttemptStepOrder ==
  \A i \in ImplTasks : \A a \in 1..(maxRetries + 1) :
    LET E == AttemptEvents(i, a)
    IN /\ Len(E) <= Len(StepOrder)
       /\ \A n \in 1..Len(E) : E[n].ev = StepOrder[n]
       /\ (Len(E) >= 1 /\ E[1].st # 0) => Len(E) = 1
       /\ (Len(E) = 1 /\ E[1].st = 0 /\ LastEvent = E[1]) => pc = "save_raw"
       /\ Len(E) >= 2 => E[2].text = E[1].text
       /\ (Len(E) = 2 /\ LastEvent = E[2])
            => /\ FileState(fs, AuditLocation(TargetOf(i), a)) = << E[1].text.v >>
               /\ pc \in {"extract", "write_module", "returned"}
               /\ pc = "returned" => ~Truthy(extract_code_block(TargetOf(i), E[1].text.v))
               /\ pc = "write_module" => Truthy(extract_code_block(TargetOf(i), E[1].text.v))
       /\ Len(E) >= 3 => E[3].text = extract_code_block(TargetOf(i), E[1].text.v)
       /\ (Len(E) >= 3 /\ LastEvent \in {E[3], E[Len(E)]})
            => FileState(fs, <<"src", "/">>
                              \o [n \in 1..Len(TargetOf(i)) |->
                                    IF TargetOf(i)[n] = "." THEN "/" ELSE TargetOf(i)[n]]
                              \o <<".py">>) = << E[3].text.v >>

C24_Witness ==
  /\ pc = "returned"
  /\ rc = 1
  /\ log # << >>
  /\ LastEvent.ev = "audit"
  /\ LastEvent.attempt = 2
  /\ LastEvent.text = PyStr(<<"I cannot help with that.">>)
  /\ FileState(fs, AuditLocation(TargetOf(idx), 2)) = << <<"I cannot help with that.">> >>

(***************************************************************************)
(* The oracle's runner alone: run_plan as main() of tools/oracle.py calls  *)
(* it, over many Charters and many outcomes of the steps' commands.        *)
(***************************************************************************)
MaxPlanLen == 2

StepNames == {"lint", "typecheck", "unit_test", "integration_test"}

\* oracle_plan.steps: up to MaxPlanLen distinct steps in any order
PlanSteps ==
  UNION { {s \in [1..n -> StepNames] : \A i, j \in 1..n : s[i] = s[j] => i = j} :
          n \in 0..MaxPlanLen }

OraclePlanOpts ==
  { Absent }
  \cup { PyDict(<< <<"steps", PyList(s)>> >> \o Section("fail_fast", ff)) :
           s \in PlanSteps, ff \in {Absent, PyBool(TRUE), PyBool(FALSE)} }

Env(cmds) == PyDict(<< <<"commands", PyDict(cmds)>> >>)
Cmd(step) == << step, PyStr(<<"run ", step>>) >>

\* runtime.envs: every step has a command; two steps have none; a later env
\* adds commands; a later env replaces a command by an empty one; a command
\* is null
RuntimeOpts ==
  { Absent,
    PyDict(<< <<"envs", PyDict(<< <<"local",
       Env(<< Cmd("lint"), Cmd("typecheck"), Cmd("unit_test"), Cmd("integration_test") >>)>> >>)>> >>),
    PyDict(<< <<"envs", PyDict(<< <<"local",
       Env(<< Cmd("lint"), Cmd("unit_test") >>)>> >>)>> >>),
    PyDict(<< <<"envs", PyDict(<< <<"local", Env(<< Cmd("lint") >>)>>,
                                  <<"ci", Env(<< Cmd("typecheck"), Cmd("unit_test"),
                                                 Cmd("integration_test") >>)>> >>)>> >>),
    PyDict(<< <<"envs", PyDict(<< <<"local",
                  Env(<< Cmd("lint"), Cmd("typecheck"), Cmd("unit_test"),
                         Cmd("integration_test") >>)>>,
                <<"ci", Env(<< <<"typecheck", PyStr(<< >>)>> >>)>> >>)>> >>),
    PyDict(<< <<"envs", PyDict(<< <<"local",
       Env(<< <<"lint", PyNone>>, Cmd("typecheck"), Cmd("unit_test"),
              Cmd("integration_test") >>)>> >>)>> >>) }

OracleCharters ==
  { PyDict(Section("oracle_plan", o) \o Section("runtime", r)) :
      o \in OraclePlanOpts, r \in RuntimeOpts }

\* the selections main() passes: --static, --dynamic, --all
Selections ==
  { PyList(<<"lint", "typecheck">>), PyList(<<"unit_test", "integration_test">>), PyNone }

InitOracle ==
  /\ maxRetries = DefaultMaxRetries
  /\ charter \in OracleCharters
  /\ tasks = NoTasks
  /\ fs = << >>
  /\ pc = "run_plan"
  /\ Idle

\* ok = run_plan(charter, which); return 0 if ok else 1.  codes[step] is what
\* the step's command exits with if it is run
RunPlan ==
  /\ pc = "run_plan"
  /\ \E which \in Selections, codes \in [StepNames -> StepCodes] :
       LET r == run_plan(charter, which, codes)
       IN /\ rc' = IF r.ok THEN 0 ELSE 1
          /\ log' = << Event("run_plan", IF r.ok THEN 0 ELSE 1, r.ran, which, codes) >>
  /\ pc' = "plan_returned"
  /\ UNCHANGED << maxRetries, charter, tasks, fs, idx, attempt, failure_trace,
                  llm_output, content >>

NextOracle == RunPlan

SpecOracle == InitOracle /\ [][NextOracle]_vars

\* the steps a call selected
SelectedSteps(which) ==
  IF which.t = "none"
    THEN Get(Get(charter, "oracle_plan", EmptyDict), "steps", PyList(<< >>)).v
    ELSE which.v

FailFast == Truthy(Get(Get(charter, "oracle_plan", EmptyDict), "fail_fast", PyBool(TRUE)))

HasCommand(step) == Truthy(CommandFor(charter, step))

\* C25: run_plan returns true exactly when every selected step has a command
\* and the command exits 0 (a timeout, status 124, and a step without a
\* command are failures).  With fail_fast true the steps executed are the
\* steps with a command up to and including the first step that fails or
\* has no command, and no later step; with fail_fast false they are all the
\* selected steps with a command; in both cases each once, in the order
\* selected.
C25_RunPlanResultAndSteps ==
  pc = "plan_returned" =>
    LET e == log[1]
        sel == SelectedSteps(e.arg)
        codes == e.text
        Good(k) == HasCommand(sel[k]) /\ codes[sel[k]] = 0
        bad == {k \in 1..Len(sel) : ~Good(k)}
        last == IF FailFast /\ bad # {}
                  THEN CHOOSE k \in bad : \A j \in bad : k <= j
                  ELSE Len(sel)
        Ran(step) == HasCommand(step)
        expected == SelectSeq(SubSeq(sel, 1, last), Ran)
    IN /\ (e.st = 0) <=> (bad = {})
       /\ (rc = 0) <=> (bad = {})
       /\ Len(e.ran) = Len(expected)
       /\ \A n \in 1..Len(expected) :
            e.ran[n] = [step |-> expected[n], code |-> codes[expected[n]]]

\* with fail_fast in force the first of two steps timed out and the second,
\* which has a command, was not run
C25_Witness ==
  /\ pc = "plan_returned"
  /\ FailFast
  /\ Len(SelectedSteps(log[1].arg)) = 2
  /\ HasCommand(SelectedSteps(log[1].arg)[2])
  /\ log[1].ran = << [step |-> SelectedSteps(log[1].arg)[1], code |-> TimeoutStatus] >>
  /\ rc = 1

====
